---- MODULE Spec2Model ----
(***************************************************************************)
(* State-machine model of the PDF region scraper:                          *)
(*   capture_pdf.py           interactive capture session                  *)
(*   extract_with_template.py batch application of a rectangle template    *)
(*                                                                         *)
(* A Python str is a sequence of atoms.  An atom is one whitespace         *)
(* character, one digit, "." or an opaque run of other non-whitespace      *)
(* characters (a word such as "alto").  Coordinates in PDF points are      *)
(* integers counting hundredths of a point (round(v, 2) * 100).            *)
(***************************************************************************)
EXTENDS Integers, Sequences, FiniteSets, TLC

\* ------------------------------------------------------------------ bounds
MaxRuns == 2
MaxSelections == 2

\* ----------------------------------------------------------- Python strings
Whitespace == {" ", "\n"}
Digits == {"0", "1", "2", "3", "4", "5", "6", "7", "8", "9"}

Str(w) == <<w>>

RECURSIVE lstrip(_)
lstrip(s) ==
  IF s # <<>> /\ Head(s) \in Whitespace THEN lstrip(Tail(s)) ELSE s

RECURSIVE rstrip(_)
rstrip(s) ==
  IF s # <<>> /\ s[Len(s)] \in Whitespace
  THEN rstrip(SubSeq(s, 1, Len(s) - 1))
  ELSE s

strip(s) == rstrip(lstrip(s))

\* Length of the longest prefix of s that holds no whitespace.
RECURSIVE WordLen(_)
WordLen(s) ==
  IF s = <<>> \/ Head(s) \in Whitespace THEN 0 ELSE 1 + WordLen(Tail(s))

\* str.split() without arguments: the non-empty runs of non-whitespace.
RECURSIVE split(_)
split(s) ==
  LET t == lstrip(s) IN
  IF t = <<>> THEN <<>>
  ELSE LET n == WordLen(t) IN
       <<SubSeq(t, 1, n)>> \o split(SubSeq(t, n + 1, Len(t)))

RECURSIVE join(_, _)
join(sep, words) ==
  IF words = <<>> THEN <<>>
  ELSE IF Len(words) = 1 THEN words[1]
  ELSE words[1] \o sep \o join(sep, Tail(words))

\* " ".join(page.get_text(...).strip().split())
clean_text(raw) == join(<<" ">>, split(strip(raw)))

\* --------------------------------------------------------- ordered dicts
\* A dict is a sequence of <<key, value>> pairs with distinct keys, in
\* insertion order.
Keys(d) == [i \in 1..Len(d) |-> d[i][1]]
HasKey(d, k) == \E i \in 1..Len(d) : d[i][1] = k
Get(d, k) == d[CHOOSE i \in 1..Len(d) : d[i][1] = k][2]
\* d[k] = v
SetItem(d, k, v) ==
  IF HasKey(d, k)
  THEN [i \in 1..Len(d) |-> IF d[i][1] = k THEN <<k, v>> ELSE d[i]]
  ELSE Append(d, <<k, v>>)

Range(s) == {s[i] : i \in 1..Len(s)}

\* ------------------------------------------------------------ file system
\* A path is [parent, stem, suffix]; Path.stem is the stem field.
Path(parent, stem, suffix) == [parent |-> parent, stem |-> stem, suffix |-> suffix]

PdfDir == Path(".", <<"pdfs">>, "")
Limpios == Path(".", <<"limpios">>, "")
NoExiste == Path(".", <<"no_existe">>, "")
Plan1 == Path("pdfs", <<"plan", "1">>, ".pdf")
Plan2 == Path("pdfs", <<"plan", "2">>, ".pdf")
Plan3 == Path("pdfs", <<"plan", "3">>, ".pdf")
Notas == Path("pdfs", <<"notas">>, ".txt")
Limpio1 == Path("limpios", <<"plan", "1">>, ".pdf")
Limpio3 == Path("limpios", <<"plan", "3">>, ".pdf")

\* The files and directories on disk, and the files fitz cannot read.
Files == {Plan1, Plan2, Plan3, Notas, Limpio1, Limpio3}
Directories == {PdfDir, Limpios}
Corrupt == {Plan2}

is_file(p) == p \in Files
exists(p) == p \in Files \/ p \in Directories

\* Order of atoms in file names (code point order of their first character).
Ord(a) ==
  CASE a = "1" -> 1
    [] a = "2" -> 2
    [] a = "3" -> 3
    [] a = "notas" -> 4
    [] a = "plan" -> 5
    [] OTHER -> 6

RECURSIVE StrLess(_, _)
StrLess(a, b) ==
  IF b = <<>> THEN FALSE
  ELSE IF a = <<>> THEN TRUE
  ELSE IF Head(a) # Head(b) THEN Ord(Head(a)) < Ord(Head(b))
  ELSE StrLess(Tail(a), Tail(b))

\* sorted(S) for a set of paths of one directory.
RECURSIVE sorted(_)
sorted(S) ==
  IF S = {} THEN <<>>
  ELSE LET m == CHOOSE x \in S : \A y \in S \ {x} : StrLess(x.stem, y.stem)
       IN <<m>> \o sorted(S \ {m})

\* pdf_path.glob("*.pdf"): nothing when the path is no directory.
glob_pdf(p) ==
  IF p \in Directories
  THEN {f \in Files : <<f.parent>> = p.stem /\ f.suffix = ".pdf"}
  ELSE {}

\* --------------------------------------------------------- PDF documents
\* Page 0 of a document: its text spans, in reading order, each at a point
\* (hundredths of a PDF point) with its raw text.
Span(x, y, text) == [x |-> x, y |-> y, text |-> text]

Page(p) ==
  IF p.stem = Plan1.stem
  THEN << Span(2400, 2400, <<" ", "0", "0", "7">>),
          Span(7200, 7200, <<"x", " ", " ", "y">>) >>
  ELSE IF p.stem = Plan3.stem
  THEN << Span(7200, 7200, <<"NA">>) >>
  ELSE <<>>

\* fitz.open(path) succeeds.
CanOpen(p) == is_file(p) /\ p \notin Corrupt

\* fitz.Rect(seq) takes exactly four numbers.
IsRect(r) == Len(r) = 4

\* page.get_text("text", clip = rect): the spans whose origin is inside the
\* clip, each followed by a newline.
RECURSIVE TextOf(_, _)
TextOf(spans, r) ==
  IF spans = <<>> THEN <<>>
  ELSE LET s == Head(spans)
           inside == r[1] <= s.x /\ s.x <= r[3] /\ r[2] <= s.y /\ s.y <= r[4]
       IN (IF inside THEN s.text \o <<"\n">> ELSE <<>>) \o TextOf(Tail(spans), r)

get_text(p, r) == TextOf(Page(p), r)

\* -------------------------------------------------------------- templates
\* A JSON document: [kind, items]; kind is "missing" (no such file),
\* "invalid" (not JSON), "array" (valid JSON, not an object) or "object",
\* whose items are <<key, value>> pairs.  A value is [type, elems]: a JSON
\* list of numbers (type "list"), or a value of another type.
JsonList(elems) == [type |-> "list", elems |-> elems]
JsonObject(items) == [kind |-> "object", items |-> items]
JsonMissing == [kind |-> "missing", items |-> <<>>]

NoError == "none"

\* load_template: json.loads, then {k: tuple(v) for k, v in data.items()}.
load_template(doc) ==
  IF doc.kind = "missing" THEN [err |-> "FileNotFoundError", rect_map |-> <<>>]
  ELSE IF doc.kind = "invalid" THEN [err |-> "JSONDecodeError", rect_map |-> <<>>]
  ELSE IF doc.kind = "array" THEN [err |-> "AttributeError", rect_map |-> <<>>]
  ELSE IF \E i \in 1..Len(doc.items) : doc.items[i][2].type # "list"
  THEN [err |-> "TypeError", rect_map |-> <<>>]
  ELSE [err |-> NoError,
        rect_map |-> [i \in 1..Len(doc.items) |->
                        <<doc.items[i][1], doc.items[i][2].elems>>]]

\* The loop of extract_single over rect_map.items(), from item i on.
RECURSIVE ExtractItems(_, _, _, _)
ExtractItems(p, rect_map, i, result) ==
  IF i > Len(rect_map) THEN [err |-> NoError, row |-> result]
  ELSE IF ~IsRect(rect_map[i][2]) THEN [err |-> "ValueError", row |-> result]
  ELSE ExtractItems(p, rect_map, i + 1,
         SetItem(result, rect_map[i][1], clean_text(get_text(p, rect_map[i][2]))))

\* extract_single(pdf_path, rect_map): [err, opened, row].
extract_single(p, rect_map) ==
  IF ~CanOpen(p)
  THEN [err |-> "FileDataError", opened |-> FALSE, row |-> <<>>]
  ELSE LET r == ExtractItems(p, rect_map, 1, <<<<Str("nombre"), p.stem>>>>)
       IN [err |-> r.err, opened |-> TRUE, row |-> r.row]

\* ----------------------------------------------------------------- pandas
\* A cell is [t, v]: t is "str" (a Python str), "int", "float" or "nan";
\* v is the text to_csv writes for it.  A DataFrame is [columns, data]:
\* the column labels (duplicates allowed) and the rows, cell by position.
StrCell(s) == [t |-> "str", v |-> s]
NaN == [t |-> "nan", v |-> <<>>]
Frame(columns, data) == [columns |-> columns, data |-> data]

\* Labels of a list of dicts in order of first appearance.
RECURSIVE UnionKeys(_, _)
UnionKeys(dicts, acc) ==
  IF dicts = <<>> THEN acc
  ELSE LET ks == Keys(Head(dicts))
           new == SelectSeq(ks, LAMBDA k : k \notin Range(acc))
       IN UnionKeys(Tail(dicts), acc \o new)

\* pd.DataFrame(list of dicts of str)
DataFrame(dicts) ==
  LET cols == UnionKeys(dicts, <<>>) IN
  Frame(cols,
        [r \in 1..Len(dicts) |->
           [c \in 1..Len(cols) |->
              IF HasKey(dicts[r], cols[c])
              THEN StrCell(Get(dicts[r], cols[c]))
              ELSE NaN]])

\* df.rename(columns = {old: new})
rename(df, old, new) ==
  Frame([c \in 1..Len(df.columns) |->
           IF df.columns[c] = old THEN new ELSE df.columns[c]],
        df.data)

\* df[col] = "" for a label that is no column yet.
AddColumn(df, col) ==
  Frame(Append(df.columns, col),
        [r \in 1..Len(df.data) |-> Append(df.data[r], StrCell(<<>>))])

\* for col in expected_cols: if col not in df.columns: df[col] = ""
RECURSIVE PadColumns(_, _)
PadColumns(df, cols) ==
  IF cols = <<>> THEN df
  ELSE PadColumns(IF Head(cols) \in Range(df.columns)
                  THEN df
                  ELSE AddColumn(df, Head(cols)),
                  Tail(cols))

\* Positions selected by a list of labels: for each label, in order, every
\* column that carries it.
RECURSIVE Positions(_, _)
Positions(columns, labels) ==
  IF labels = <<>> THEN <<>>
  ELSE SelectSeq([i \in 1..Len(columns) |-> i],
                 LAMBDA i : columns[i] = Head(labels))
       \o Positions(columns, Tail(labels))

\* df.loc[:, labels] and df[labels], every label being a column.
loc(df, labels) ==
  LET pos == Positions(df.columns, labels) IN
  Frame([i \in 1..Len(pos) |-> df.columns[pos[i]]],
        [r \in 1..Len(df.data) |-> [i \in 1..Len(pos) |-> df.data[r][pos[i]]]])

IsUnique(columns) ==
  \A i, j \in 1..Len(columns) : columns[i] = columns[j] => i = j

ColumnOf(df, label) == CHOOSE c \in 1..Len(df.columns) : df.columns[c] = label

\* Rows of df laid out under the labels `columns`, NaN where df has none.
Reindexed(df, columns) ==
  [r \in 1..Len(df.data) |->
     [c \in 1..Len(columns) |->
        IF columns[c] \in Range(df.columns)
        THEN df.data[r][ColumnOf(df, columns[c])]
        ELSE NaN]]

\* pd.concat([a, b], ignore_index = True): [err, df].  Frames whose labels
\* differ are laid out under the union of the labels, which needs unique
\* labels on both sides.
concat(a, b) ==
  IF a.columns = b.columns
  THEN [err |-> NoError, df |-> Frame(a.columns, a.data \o b.data)]
  ELSE IF ~IsUnique(a.columns) \/ ~IsUnique(b.columns)
  THEN [err |-> "InvalidIndexError", df |-> a]
  ELSE LET cols == a.columns
                   \o SelectSeq(b.columns, LAMBDA k : k \notin Range(a.columns))
       IN [err |-> NoError,
           df |-> Frame(cols, Reindexed(a, cols) \o Reindexed(b, cols))]

\* ------------------------------------------------------------- CSV files
\* A file is [present, header, data]: present is FALSE when there is no
\* such file; an empty header is a file of zero bytes; data are the lines
\* after the header, each a sequence of fields.
Absent == [present |-> FALSE, header |-> <<>>, data |-> <<>>]
File(header, data) == [present |-> TRUE, header |-> header, data |-> data]
EmptyFile == File(<<>>, <<>>)

\* df.to_csv(path, index = False)
to_csv(df) ==
  File(df.columns,
       [r \in 1..Len(df.data) |->
          [c \in 1..Len(df.columns) |-> df.data[r][c].v]])

\* Fields read_csv takes for missing values.
IsNA(s) == s = <<>> \/ s = <<"NA">>

IsIntLit(s) == s # <<>> /\ \A i \in 1..Len(s) : s[i] \in Digits

IsFloatLit(s) ==
  \E i \in 2..(Len(s) - 1) :
    /\ s[i] = "."
    /\ IsIntLit(SubSeq(s, 1, i - 1))
    /\ IsIntLit(SubSeq(s, i + 1, Len(s)))

RECURSIVE StripLeadingZeros(_)
StripLeadingZeros(s) ==
  IF Len(s) > 1 /\ Head(s) = "0" THEN StripLeadingZeros(Tail(s)) ELSE s

RECURSIVE StripTrailingZeros(_)
StripTrailingZeros(s) ==
  IF Len(s) > 1 /\ s[Len(s)] = "0"
  THEN StripTrailingZeros(SubSeq(s, 1, Len(s) - 1))
  ELSE s

\* str(int(s)) for an integer literal.
IntRepr(s) == StripLeadingZeros(s)

\* repr(float(s)) for an integer or a decimal literal.
FloatRepr(s) ==
  IF IsIntLit(s) THEN StripLeadingZeros(s) \o <<".", "0">>
  ELSE LET i == CHOOSE k \in 2..(Len(s) - 1) : s[k] = "."
       IN StripLeadingZeros(SubSeq(s, 1, i - 1)) \o <<".">>
          \o StripTrailingZeros(SubSeq(s, i + 1, Len(s)))

\* The dtype read_csv infers for the fields of one column.
InferDtype(fields) ==
  LET given == SelectSeq(fields, LAMBDA s : ~IsNA(s)) IN
  IF fields = <<>> THEN "object"
  ELSE IF \E i \in 1..Len(given) : ~IsIntLit(given[i]) /\ ~IsFloatLit(given[i])
  THEN "object"
  ELSE IF Len(given) = Len(fields) /\ \A i \in 1..Len(given) : IsIntLit(given[i])
  THEN "int64"
  ELSE "float64"

ParseField(s, dtype) ==
  IF IsNA(s) THEN NaN
  ELSE IF dtype = "int64" THEN [t |-> "int", v |-> IntRepr(s)]
  ELSE IF dtype = "float64" THEN [t |-> "float", v |-> FloatRepr(s)]
  ELSE StrCell(s)

\* Header labels as read_csv names them: a repeated label gets ".1".
MangleDupes(header) ==
  [c \in 1..Len(header) |->
     IF \E d \in 1..(c - 1) : header[d] = header[c]
     THEN header[c] \o <<".", "1">>
     ELSE header[c]]

\* pd.read_csv(path) of a present file: [err, df].
read_csv(f) ==
  IF f.header = <<>>
  THEN [err |-> "EmptyDataError", df |-> Frame(<<>>, <<>>)]
  ELSE LET dtype == [c \in 1..Len(f.header) |->
                       InferDtype([r \in 1..Len(f.data) |-> f.data[r][c]])]
       IN [err |-> NoError,
           df |-> Frame(MangleDupes(f.header),
                        [r \in 1..Len(f.data) |->
                           [c \in 1..Len(f.header) |->
                              ParseField(f.data[r][c], dtype[c])]])]

\* What is on disk when to_csv writes `f` and stops after `lines` lines
\* (the header is line 1): open(path, "w") has truncated the file.
PartialWrite(f, lines) ==
  IF lines = 0 THEN EmptyFile
  ELSE File(f.header, SubSeq(f.data, 1, lines - 1))

\* ------------------------------------------------- accumulated plan table
expected_cols ==
  << Str("nombre_plan"), Str("alto"), Str("medio"), Str("bajo"),
     Str("alto_ambu"), Str("medio_ambu"), Str("bajo_ambu") >>

\* extract_with_template.main, the frame of the new rows:
\* DataFrame(rows), rename nombre, pad and select expected_cols.
BatchFrame(dicts) ==
  loc(PadColumns(rename(DataFrame(dicts), Str("nombre"), Str("nombre_plan")),
                 expected_cols),
      expected_cols)

\* extract_with_template.main, the table to save given the file at the
\* output path: [err, df].
BatchAccumulate(f, df) ==
  IF ~f.present THEN [err |-> NoError, df |-> df]
  ELSE LET r == read_csv(f) IN
       IF r.err # NoError THEN r
       ELSE concat(loc(PadColumns(r.df, expected_cols), expected_cols), df)

\* The loop of main over the documents, from document i on:
\* [err, dicts, opened].
RECURSIVE ExtractAll(_, _, _, _, _)
ExtractAll(paths, rect_map, i, dicts, opened) ==
  IF i > Len(paths) THEN [err |-> NoError, dicts |-> dicts, opened |-> opened]
  ELSE LET r == extract_single(paths[i], rect_map)
           seen == IF r.opened THEN Append(opened, paths[i]) ELSE opened
       IN IF r.err # NoError
          THEN [err |-> r.err, dicts |-> dicts, opened |-> seen]
          ELSE ExtractAll(paths, rect_map, i + 1, Append(dicts, r.row), seen)

\* The documents main hands to extract_single, in order.
BatchDocuments(p) == IF is_file(p) THEN <<p>> ELSE sorted(glob_pdf(p))

BatchRows(p, rect_map) == ExtractAll(BatchDocuments(p), rect_map, 1, <<>>, <<>>)

\* capture_pdf: plan_row built from self.rows.
RECURSIVE FillPlanRow(_, _)
FillPlanRow(plan_row, rows) ==
  IF rows = <<>> THEN plan_row
  ELSE FillPlanRow(IF Head(rows).etiqueta \in Range(expected_cols)
                   THEN SetItem(plan_row, Head(rows).etiqueta, Head(rows).texto)
                   ELSE plan_row,
                   Tail(rows))

PlanRow(stem, rows) ==
  FillPlanRow(SetItem([c \in 1..Len(expected_cols) |-> <<expected_cols[c], <<>>>>],
                      Str("nombre_plan"), stem),
              rows)

\* plan_de_salud[expected_cols]: [err, df].
getitem(df, labels) ==
  IF \E i \in 1..Len(labels) : labels[i] \notin Range(df.columns)
  THEN [err |-> "KeyError", df |-> df]
  ELSE [err |-> NoError, df |-> loc(df, labels)]

\* A capture_pdf that saves its Result Row alone, over the table that was
\* there.
CaptureAccumulateAlone(f, plan_df_row) == getitem(plan_df_row, expected_cols)

\* capture_pdf, the table to save given the file plan_de_salud.csv:
\* [err, df].
CaptureAccumulate(f, plan_df_row) ==
  IF ~f.present THEN getitem(plan_df_row, expected_cols)
  ELSE LET r == read_csv(f) IN
       IF r.err # NoError THEN r
       ELSE LET c == concat(r.df, plan_df_row) IN
            IF c.err # NoError THEN c ELSE getitem(c.df, expected_cols)

\* A template in which the first row of a label keeps its rectangle.
RECURSIVE TemplateItemsFirstWins(_, _)
TemplateItemsFirstWins(rows, acc) ==
  IF rows = <<>> THEN acc
  ELSE LET r == Head(rows) IN
       TemplateItemsFirstWins(
         Tail(rows),
         IF HasKey(acc, r.etiqueta) THEN acc
         ELSE SetItem(acc, r.etiqueta, JsonList(<<r.x0, r.y0, r.x1, r.y1>>)))

\* capture_pdf: the template saved from self.rows.
RECURSIVE TemplateItems(_, _)
TemplateItems(rows, acc) ==
  IF rows = <<>> THEN acc
  ELSE LET r == Head(rows) IN
       TemplateItems(Tail(rows),
                     SetItem(acc, r.etiqueta, JsonList(<<r.x0, r.y0, r.x1, r.y1>>)))

TemplateOf(rows) == JsonObject(TemplateItems(rows, <<>>))

\* capture_pdf: df.to_csv("captured_data.csv") of DataFrame(self.rows); the
\* coordinate fields are kept as numbers (hundredths of a point).
CapturedCsv(rows) ==
  File(<<Str("etiqueta"), Str("texto"), Str("x0"), Str("y0"), Str("x1"), Str("y1")>>,
       [i \in 1..Len(rows) |->
          <<rows[i].etiqueta, rows[i].texto,
            rows[i].x0, rows[i].y0, rows[i].x1, rows[i].y1>>])

\* ----------------------------------------------------- capture geometry
dpi == 150
PointsPerInch == 72

\* round(px / scale, 2) with scale = dpi / 72, in hundredths of a point
\* (ties to even).
ToPoint(px) ==
  LET n == px * PointsPerInch * 100
      q == n \div dpi
      r == n % dpi
  IN IF 2 * r < dpi THEN q
     ELSE IF 2 * r > dpi THEN q + 1
     ELSE IF q % 2 = 0 THEN q ELSE q + 1

Min(a, b) == IF a <= b THEN a ELSE b
Max(a, b) == IF a <= b THEN b ELSE a

\* str.lower() on the atoms the prompts are answered with.
lower(s) == [i \in 1..Len(s) |-> IF s[i] = "S" THEN "s" ELSE s[i]]

\* An on_select that keeps one row per label: a label used again replaces
\* its row.
on_select_upsert(rows, p, eclick, erelease, label_input) ==
  LET x0 == Min(eclick[1], erelease[1])
      x1 == Max(eclick[1], erelease[1])
      y0 == Min(eclick[2], erelease[2])
      y1 == Max(eclick[2], erelease[2])
      rect == <<ToPoint(x0), ToPoint(y0), ToPoint(x1), ToPoint(y1)>>
      label == strip(label_input)
      row == [etiqueta |-> label,
              texto |-> clean_text(get_text(p, rect)),
              x0 |-> rect[1], y0 |-> rect[2],
              x1 |-> rect[3], y1 |-> rect[4]]
  IN IF label = <<>> THEN rows
     ELSE IF \E i \in 1..Len(rows) : rows[i].etiqueta = label
     THEN [i \in 1..Len(rows) |-> IF rows[i].etiqueta = label THEN row ELSE rows[i]]
     ELSE Append(rows, row)

\* on_select: the rows after a drag from eclick to erelease (pixels) on the
\* page of document p, answered with label_input at the prompt.  The drags
\* offered are on pixels whose point coordinates have two decimals, so the
\* clip rectangle and the rounded rectangle of the row are the same.
on_select(rows, p, eclick, erelease, label_input) ==
  LET x0 == Min(eclick[1], erelease[1])
      x1 == Max(eclick[1], erelease[1])
      y0 == Min(eclick[2], erelease[2])
      y1 == Max(eclick[2], erelease[2])
      rect == <<ToPoint(x0), ToPoint(y0), ToPoint(x1), ToPoint(y1)>>
      label == strip(label_input)
  IN IF label = <<>> THEN rows
     ELSE Append(rows,
                 [etiqueta |-> label,
                  texto |-> clean_text(get_text(p, rect)),
                  x0 |-> rect[1], y0 |-> rect[2],
                  x1 |-> rect[3], y1 |-> rect[4]])

\* ------------------------------------------------------------------ state
VARIABLES
  files,          \* the accumulated tables on disk, by file name
  captured_data,  \* captured_data.csv
  rect_template,  \* rect_template.json
  pc,             \* the capture session: Idle, AwaitingSelection, Closed
  pdf_path,       \* self.pdf_path of the capture session
  rows,           \* self.rows of the capture session
  runs,           \* program runs started so far
  last            \* what the latest operation was given and how it ended

vars == <<files, captured_data, rect_template, pc, pdf_path, rows, runs, last>>

PlanCsv == "plan_de_salud.csv"
BatchCsv == "batch_output.csv"
OutputPaths == {PlanCsv, BatchCsv}

\* Tables left at plan_de_salud.csv by earlier tools: none, one with two of
\* the columns, one with a column more.
LegacyShort ==
  File(<<Str("nombre_plan"), Str("alto")>>, << <<Str("viejo"), <<"0", "5">>>> >>)
LegacyWide ==
  File(expected_cols \o <<Str("notas")>>,
       << <<Str("viejo"), <<"1">>, <<>>, <<>>, <<>>, <<>>, <<>>, Str("ojo")>> >>)
InitialTables == {Absent, LegacyShort, LegacyWide}

\* Tables the program itself can have left there: one it wrote, and the
\* empty file of a write that failed at once.
Earlier ==
  File(expected_cols,
       << <<<<"plan", "1">>, <<"0", "0", "7">>, <<>>, <<>>, <<>>, <<>>, <<>>>>,
          <<<<"plan", "3">>, <<>>, <<>>, <<>>, <<>>, <<>>, <<>>>> >>)
CaptureTables == InitialTables \cup {Earlier, EmptyFile}

\* Rectangles in hundredths of a point.
RectA == <<0, 0, 4800, 4800>>
RectB == <<4800, 4800, 9600, 9600>>

\* The template files a batch run can be given, by name.
TemplateNames ==
  { "rect_template.json", "plantilla.json", "plantilla_nombre.json",
    "plantilla_nombre_plan.json", "plantilla_3.json", "plantilla_rota.json" }

TemplateFile(name) ==
  CASE name = "rect_template.json" -> rect_template
    [] name = "plantilla.json" ->
         JsonObject(<< <<Str("alto"), JsonList(RectA)>>,
                       <<Str("extra"), JsonList(RectB)>> >>)
    [] name = "plantilla_nombre.json" ->
         JsonObject(<< <<Str("nombre"), JsonList(RectB)>>,
                       <<Str("alto"), JsonList(RectA)>> >>)
    [] name = "plantilla_nombre_plan.json" ->
         JsonObject(<< <<Str("nombre_plan"), JsonList(RectB)>>,
                       <<Str("alto"), JsonList(RectA)>> >>)
    [] name = "plantilla_3.json" ->
         JsonObject(<< <<Str("alto"), JsonList(<<0, 0, 4800>>)>> >>)
    [] OTHER -> [kind |-> "invalid", items |-> <<>>]

\* Inputs of the operations.
BatchPdfArgs == {Plan1, Plan2, PdfDir, Limpios, NoExiste}
CapturePdfArgs == {Plan1, Plan2, NoExiste}
Pixels == {<<0, 0>>, <<100, 100>>, <<200, 200>>}
Drags ==
  { d \in Pixels \X Pixels : d[1] # d[2] /\ <<100, 100>> \in {d[1], d[2]} }
LabelInputs ==
  { <<>>, <<" ">>, <<"alto">>, <<" ", "alto", " ">>, <<"nombre_plan">>, <<"extra">> }
Answers == { <<"s">>, <<" ", "S", " ">>, <<>> }
FewDrags == { <<<<0, 0>>, <<100, 100>>>>, <<<<200, 200>>, <<100, 100>>>> }
FewLabelInputs == { <<" ">>, <<" ", "alto", " ">>, <<"nombre_plan">> }

NoPath == Path("", <<>>, "")

Event(op, err) ==
  [ op |-> op, err |-> err,
    arg |-> NoPath,        \* the document or directory given
    template |-> "",       \* the template file given (batch)
    load_err |-> NoError,  \* how load_template ended (batch)
    opened |-> <<>>,       \* the documents fitz opened (batch)
    out |-> "",            \* the accumulated table the run is for
    before |-> Absent,     \* that table when the operation began
    new_rows |-> <<>>,     \* the lines of the rows handed to accumulation
    stop |-> -1,           \* lines to_csv wrote before failing, -1: it did not fail
    label |-> <<>>,        \* the answer to the label prompt (on_select)
    exported |-> FALSE,    \* captured_data.csv was written (run)
    saved |-> FALSE ]      \* rect_template.json was written (run)

Init ==
  /\ files \in [OutputPaths -> InitialTables]
  /\ files[BatchCsv] = Absent
  /\ captured_data = Absent
  /\ rect_template = JsonMissing
  /\ pc = "Idle"
  /\ pdf_path = NoPath
  /\ rows = <<>>
  /\ runs = 0
  /\ last = Event("none", NoError)

\* ----------------------------------------------------------------- actions
\* Runs are serialized: a program starts when no capture session is open.
CanStart == pc \in {"Idle", "Closed"} /\ runs < MaxRuns

\* capture_pdf: PDFInteractiveCapturer(Path(sys.argv[1])).
CaptureInit(p) ==
  /\ CanStart
  /\ runs' = runs + 1
  /\ rows' = <<>>
  /\ IF ~exists(p)
     THEN /\ pc' = "Idle"
          /\ pdf_path' = NoPath
          /\ last' = [Event("__init__", "SystemExit") EXCEPT !.arg = p]
     ELSE IF ~CanOpen(p)
     THEN /\ pc' = "Idle"
          /\ pdf_path' = NoPath
          /\ last' = [Event("__init__", "FileDataError") EXCEPT !.arg = p]
     ELSE /\ pc' = "AwaitingSelection"
          /\ pdf_path' = p
          /\ last' = [Event("__init__", NoError) EXCEPT !.arg = p]
  /\ UNCHANGED <<files, captured_data, rect_template>>

\* capture_pdf: the on_select callback of the rectangle selector.
OnSelect(eclick, erelease, label_input) ==
  /\ pc = "AwaitingSelection"
  /\ Len(rows) < MaxSelections
  /\ rows' = on_select(rows, pdf_path, eclick, erelease, label_input)
  /\ last' = [Event("on_select", NoError) EXCEPT !.arg = pdf_path, !.label = label_input]
  /\ UNCHANGED <<files, captured_data, rect_template, pc, pdf_path, runs>>

\* What to_csv leaves at a path when it is to write f: f, or what was
\* written when it failed after `stop` lines.
Written(f, stop) == IF stop < 0 THEN f ELSE PartialWrite(f, stop)

WriteStops(f) == {-1} \cup 0..Len(f.data)

\* capture_pdf: run() from the moment the window is closed.
run(answer, answer_tpl) ==
  /\ pc = "AwaitingSelection"
  /\ pc' = "Closed"
  /\ UNCHANGED <<pdf_path, rows, runs>>
  /\ IF rows = <<>>
     THEN /\ last' = [Event("run", NoError) EXCEPT
                        !.arg = pdf_path, !.out = PlanCsv, !.before = files[PlanCsv]]
          /\ UNCHANGED <<files, captured_data, rect_template>>
     ELSE LET exported == lower(strip(answer)) = <<"s">>
              saved == lower(strip(answer_tpl)) = <<"s">>
              plan_df_row == DataFrame(<<PlanRow(pdf_path.stem, rows)>>)
              acc == CaptureAccumulate(files[PlanCsv], plan_df_row)
              f == to_csv(acc.df)
              ev == [Event("run", acc.err) EXCEPT
                       !.arg = pdf_path, !.out = PlanCsv,
                       !.before = files[PlanCsv],
                       !.new_rows = to_csv(plan_df_row).data,
                       !.exported = exported, !.saved = saved]
          IN /\ captured_data' = IF exported THEN CapturedCsv(rows) ELSE captured_data
             /\ rect_template' = IF saved THEN TemplateOf(rows) ELSE rect_template
             /\ IF acc.err # NoError
                THEN last' = ev /\ UNCHANGED files
                ELSE \E stop \in WriteStops(f) :
                       /\ files' = [files EXCEPT ![PlanCsv] = Written(f, stop)]
                       /\ last' = [ev EXCEPT
                                     !.err = IF stop < 0 THEN NoError ELSE "OSError",
                                     !.stop = stop]

\* extract_with_template: main().  The capture session of an earlier run,
\* if any, is over: its process is gone.
main(template, p, out) ==
  /\ CanStart
  /\ runs' = runs + 1
  /\ pc' = "Idle"
  /\ pdf_path' = NoPath
  /\ rows' = <<>>
  /\ UNCHANGED <<captured_data, rect_template>>
  /\ LET ev == [Event("main", NoError) EXCEPT
                  !.arg = p, !.template = template, !.out = out,
                  !.before = files[out]]
         tpl == load_template(TemplateFile(template))
     IN IF tpl.err # NoError
        THEN /\ last' = [ev EXCEPT !.err = tpl.err, !.load_err = tpl.err]
             /\ UNCHANGED files
        ELSE LET got == BatchRows(p, tpl.rect_map) IN
             IF got.err # NoError
             THEN /\ last' = [ev EXCEPT !.err = got.err, !.opened = got.opened]
                  /\ UNCHANGED files
             ELSE LET df == BatchFrame(got.dicts)
                      acc == BatchAccumulate(files[out], df)
                      f == to_csv(acc.df)
                      ev2 == [ev EXCEPT !.opened = got.opened,
                                        !.new_rows = to_csv(df).data]
                  IN IF acc.err # NoError
                     THEN /\ last' = [ev2 EXCEPT !.err = acc.err]
                          /\ UNCHANGED files
                     ELSE \E stop \in WriteStops(f) :
                            /\ files' = [files EXCEPT ![out] = Written(f, stop)]
                            /\ last' = [ev2 EXCEPT
                                          !.err = IF stop < 0 THEN NoError ELSE "OSError",
                                          !.stop = stop]

\* The whole system: capture sessions and batch runs, one after another,
\* the capture sessions on a narrow choice of drags and labels.
Next ==
  \/ \E p \in CapturePdfArgs : CaptureInit(p)
  \/ \E d \in FewDrags, label_input \in FewLabelInputs :
       OnSelect(d[1], d[2], label_input)
  \/ \E answer \in Answers, answer_tpl \in Answers : run(answer, answer_tpl)
  \/ \E template \in TemplateNames, p \in BatchPdfArgs, out \in OutputPaths :
       main(template, p, out)

Spec == Init /\ [][Next]_vars

\* One capture session, on every drag and label, over any table an earlier
\* run or tool can have left at plan_de_salud.csv.
InitCapture ==
  /\ files \in [OutputPaths -> CaptureTables]
  /\ files[BatchCsv] = Absent
  /\ captured_data = Absent
  /\ rect_template = JsonMissing
  /\ pc = "Idle"
  /\ pdf_path = NoPath
  /\ rows = <<>>
  /\ runs = 0
  /\ last = Event("none", NoError)

NextCapture ==
  \/ \E p \in CapturePdfArgs : runs = 0 /\ CaptureInit(p)
  \/ \E d \in Drags, label_input \in LabelInputs :
       OnSelect(d[1], d[2], label_input)
  \/ \E answer \in Answers, answer_tpl \in Answers : run(answer, answer_tpl)

SpecCapture == InitCapture /\ [][NextCapture]_vars

\* ------------------------------------------------------------ properties
\* The run that just ended wrote the accumulated table in full.
Accumulated ==
  /\ last.op \in {"main", "run"}
  /\ last.err = NoError
  /\ last.new_rows # <<>> \/ last.op = "main"

\* The lines of the table at the output path of the latest run.
Table == files[last.out].data
Before == last.before.data

\* The field of a line under the first column of `header` labelled `label`.
FieldAt(header, line, label) ==
  line[CHOOSE c \in 1..Len(header) :
         header[c] = label /\ \A d \in 1..(c - 1) : header[d] # label]

\* The documents whose rows the latest run handed to accumulation, in order.
Documents == IF last.op = "main" THEN last.opened ELSE <<last.arg>>

\* C1: a batch run over a directory in which nothing goes wrong except that
\* documents fail to open ends well, with one Result Row for each document
\* of the directory that can be opened, and with the output table written.
C1_FailingDocumentsSkipped ==
  (/\ last.op = "main"
   /\ last.arg \in Directories
   /\ last.err \in {NoError, "FileDataError"})
  => /\ last.err = NoError
     /\ Len(last.new_rows) = Cardinality({f \in glob_pdf(last.arg) : CanOpen(f)})
     /\ files[last.out].present

\* C2: every Result Row a run writes to the accumulated table has, under
\* nombre_plan, the stem of the file name of its document, whatever the
\* labels of the template or of the capture rows.
C2_IdentityIsStem ==
  Accumulated =>
    \A i \in 1..Len(last.new_rows) :
      FieldAt(files[last.out].header,
              Table[Len(Table) - Len(last.new_rows) + i],
              Str("nombre_plan")) = Documents[i].stem

\* C3: a run against a table the program wrote (or against no table) leaves
\* exactly the lines that were there, unchanged and in order, followed by the
\* lines of its new rows.
C3_AppendOnly ==
  (Accumulated /\ (last.before.present => last.before.header = expected_cols))
  => Table = Before \o last.new_rows

\* C4: after every run the accumulated table has exactly the seven columns
\* of expected_cols, each once, in that order.
C4_FixedColumns ==
  Accumulated => files[last.out].header = expected_cols

\* C5: a run given a document path that does not exist, or a template that
\* cannot be loaded, ends in error and leaves the output table as it was.
C5_InputErrorsFatal ==
  (last.op \in {"main", "__init__"}
   /\ (~exists(last.arg) \/ last.load_err # NoError))
  => /\ last.err # NoError
     /\ (last.op = "main" => files[last.out] = last.before)

\* A template one of whose values is not a list of exactly four numbers.
Malformed(doc) ==
  /\ doc.kind = "object"
  /\ \E i \in 1..Len(doc.items) :
       doc.items[i][2].type # "list" \/ Len(doc.items[i][2].elems) # 4

\* C6: a batch run given a template with a value that is not exactly four
\* numbers fails when the template is loaded, before any document is opened.
C6_MalformedTemplateRejected ==
  (last.op = "main" /\ Malformed(TemplateFile(last.template)))
  => last.load_err # NoError /\ last.opened = <<>>

\* C7: when the write of the accumulated table fails, the table that was at
\* the output path before the run is still there, exactly as it was.
C7_AtomicReplace ==
  (last.err = "OSError" /\ last.before.present) => files[last.out] = last.before

\* C8 as claimed: every capture session that reaches Closed has added exactly
\* one line to plan_de_salud.csv.
C8_OneRowPerSession ==
  (pc = "Closed" /\ last.op = "run")
  => /\ files[PlanCsv].present
     /\ Len(files[PlanCsv].data) = Len(Before) + 1

\* C8 as amended: a capture session that reaches Closed with no accepted
\* selection writes nothing; one with at least one accepted selection adds
\* exactly one line, its Result Row, to plan_de_salud.csv whatever the number
\* of selections and the answers to the two prompts, unless the table cannot
\* be read or the write fails, and then it adds none.
C8_OneRowPerCapturingSession ==
  (pc = "Closed" /\ last.op = "run")
  => /\ (rows = <<>>) =>
          (/\ last.err = NoError
           /\ files[PlanCsv] = last.before
           /\ ~last.exported /\ ~last.saved)
     /\ (rows # <<>>) =>
          (/\ last.err \in {NoError, "EmptyDataError", "OSError"}
           /\ (last.err = NoError) =>
                (/\ files[PlanCsv].present
                 /\ Len(files[PlanCsv].data) = Len(Before) + 1
                 /\ files[PlanCsv].data[Len(Before) + 1] = last.new_rows[1])
           /\ (last.err # NoError) => (Len(files[PlanCsv].data) <= Len(Before)))

\* A session of two accepted selections, both prompts declined, over a table
\* that had lines, ended with its line added.
C8_Witness ==
  /\ pc = "Closed" /\ last.op = "run" /\ last.err = NoError
  /\ Len(rows) = 2 /\ ~last.exported /\ ~last.saved
  /\ Before # <<>>
  /\ Len(files[PlanCsv].data) = Len(Before) + 1

\* C9: a selection answered with a blank label leaves the rows as they are;
\* one answered with a label appends one row with that label, stripped, and
\* leaves the rows before it as they were; either way the session goes on
\* awaiting a selection.  Closing the window leaves the rows as they are.
C9_RowsAppendOnly ==
  [][ /\ (last'.op = "on_select") =>
           (/\ pc' = "AwaitingSelection"
            /\ IF strip(last'.label) = <<>>
               THEN rows' = rows
               ELSE /\ Len(rows') = Len(rows) + 1
                    /\ SubSeq(rows', 1, Len(rows)) = rows
                    /\ rows'[Len(rows')].etiqueta = strip(last'.label))
      /\ (last'.op = "run") => (rows' = rows) ]_vars

\* A blank label was given after a selection had been accepted.
C9_Witness ==
  /\ pc = "AwaitingSelection" /\ last.op = "on_select"
  /\ last.label = <<" ">>
  /\ Len(rows) = 1

\* The last row of the session that carries the label.
LastRow(label) ==
  rows[CHOOSE i \in 1..Len(rows) :
         /\ rows[i].etiqueta = label
         /\ \A j \in (i + 1)..Len(rows) : rows[j].etiqueta # label]

Labels == {rows[i].etiqueta : i \in 1..Len(rows)}

\* C10: at the end of a capture session the saved template maps each label
\* to the rectangle of the last row with that label, the Result Row holds
\* under each label that is a column the text of that same row, and the flat
\* CSV holds every row of the session, in order.
C10_LastLabelWins ==
  (pc = "Closed" /\ last.op = "run" /\ rows # <<>>)
  => /\ last.saved =>
          (/\ rect_template.kind = "object"
           /\ Range(Keys(rect_template.items)) = Labels
           /\ Len(rect_template.items) = Cardinality(Labels)
           /\ \A l \in Labels :
                Get(rect_template.items, l).elems
                  = <<LastRow(l).x0, LastRow(l).y0, LastRow(l).x1, LastRow(l).y1>>)
     /\ (last.err = NoError) =>
          (\A l \in Labels \cap Range(expected_cols) :
             FieldAt(files[PlanCsv].header, Table[Len(Table)], l) = LastRow(l).texto)
     /\ last.exported =>
          (/\ Len(captured_data.data) = Len(rows)
           /\ \A i \in 1..Len(rows) :
                /\ captured_data.data[i][1] = rows[i].etiqueta
                /\ captured_data.data[i][2] = rows[i].texto
                /\ captured_data.data[i][3] = rows[i].x0)

\* A label that is a column was used twice, for two rectangles with two
\* texts, and the session saved its template, its flat CSV and its line.
C10_Witness ==
  /\ pc = "Closed" /\ last.op = "run" /\ last.err = NoError
  /\ last.saved /\ last.exported
  /\ Len(rows) = 2
  /\ rows[1].etiqueta = rows[2].etiqueta
  /\ rows[1].etiqueta \in Range(expected_cols)
  /\ rows[1].x0 # rows[2].x0
  /\ rows[1].texto # rows[2].texto

====
